---- MODULE Spec2Model ----
(***************************************************************************)
(* Model of the rook-s3-nano operator: the ObjectStore reconciler          *)
(* (controllers/objectstore_controller.go, controllers/spec.go) and the    *)
(* bucket reconciler (controllers/objectstore_bucket_controller.go),       *)
(* running against a cluster store.                                        *)
(*                                                                         *)
(* A Reconcile invocation is split at its store calls: fetch, claim,       *)
(* service, deployment.  Between two steps of one invocation the user, the *)
(* store's garbage collector and the other invocations may act.            *)
(* controllerutil.CreateOrUpdate (get, mutate, compare, write) is one      *)
(* step; a write that loses a race is one of its injected failures.        *)
(*                                                                         *)
(* Strings the code takes apart or puts together are sequences of pieces   *)
(* (characters, or longer literals that are only ever copied).             *)
(***************************************************************************)
EXTENDS Naturals, Sequences, FiniteSets, TLC

VARIABLES
    gw,        \* stored ObjectStore objects: id -> object (domain = present ids)
    pvcs,      \* stored PersistentVolumeClaims: key -> object
    svcs,      \* stored Services: key -> object
    deps,      \* stored Deployments: key -> object
    created,   \* id -> how many times the user created an object of that id
    inv,       \* id -> the Reconcile invocation of that id (position and locals)
    stable,    \* id -> the last invocation converged and nothing changed since
    bucket,    \* the bucket reconciler's invocation
    play,      \* the ids the user and the scheduler act on in this run
    calc       \* an application of a helper of spec.go: its input and output

vars == <<gw, pvcs, svcs, deps, created, inv, stable, bucket, play, calc>>

----------------------------------------------------------------------------
(* Bounds *)

\* How many times the user may create an object of one id (each gets a new uid).
MaxCreates == 2

\* The longest flag key given to NewFlag, in characters.
MaxKeyLen == 4

----------------------------------------------------------------------------
(* Constants of the program *)

appName == <<"r", "g", "w">>

rgwPortInternalPort == 7480

rgwPortExternalPort == 8080

\* The kind of the reconciled object, as the store reports it.
Kind == <<"O", "b", "j", "e", "c", "t", "S", "t", "o", "r", "e">>

\* v1alpha1.GroupVersion printed with %s: "<group>/<version>".
GroupVersion == <<"object.rook-s3-nano", "/", "v1alpha1">>

ReadWriteOnce == "ReadWriteOnce"

PersistentVolumeFilesystem == "Filesystem"

----------------------------------------------------------------------------
(* Naming helpers (spec.go) *)

ToLower(c) ==
    CASE c = "O" -> "o"
      [] c = "S" -> "s"
      [] OTHER -> c

\* instanceName without the namespace in the name.
instanceNameWithoutNamespace(name, namespace) ==
    appName \o <<"-">> \o name

\* instanceName with no hyphen between the name and the namespace.
instanceNameUnseparated(name, namespace) ==
    appName \o <<"-">> \o name \o namespace

instanceName(name, namespace) ==
    appName \o <<"-">> \o name \o <<"-">> \o namespace

buildFinalizerName(kind) ==
    [i \in 1..Len(kind) |-> ToLower(kind[i])] \o <<".">> \o GroupVersion

\* strings.Replace(s, old, new, -1) for one-character old and new.
Replace(s, old, new) == [i \in 1..Len(s) |-> IF s[i] = old THEN new ELSE s[i]]

\* normalizeKey leaving spaces as they are.
normalizeKeyHyphensOnly(key) == Replace(key, "-", "_")

normalizeKey(key) == Replace(Replace(key, " ", "_"), "-", "_")

\* fmt.Sprintf("--%s=%s", f, value)
NewFlag(key, value) ==
    <<"-", "-">> \o Replace(normalizeKey(key), "_", "-") \o <<"=">> \o value

\* A label map is a set of <<key, value>> pairs; the nil map is {}.
getLabels(name, namespace, includeNewLabels) ==
    { <<"object_store", name>> }

----------------------------------------------------------------------------
(* The objects *)

\* Two storage-claim templates that ask for other modes than the forced ones.
TemplateA ==
    [accessModes |-> <<"ReadWriteMany">>, volumeMode |-> "Block",
     storage |-> "1Gi", storageClassName |-> "fast"]

TemplateB ==
    [accessModes |-> <<"ReadWriteOnce", "ReadOnlyMany">>, volumeMode |-> "Filesystem",
     storage |-> "5Gi", storageClassName |-> "slow"]

\* ObjectStoreSpec values the user submits.  tmpl is the VolumeClaimTemplate
\* pointer: <<>> is nil, <<t>> points to t.
GatewaySpecs ==
    { [image |-> "quay.io/rgw:1", port |-> 0,    tmpl |-> <<TemplateA>>],
      [image |-> "quay.io/rgw:2", port |-> 8080, tmpl |-> <<TemplateB>>],
      [image |-> "quay.io/rgw:1", port |-> 0,    tmpl |-> <<>>] }

\* The zero value of ObjectStoreSpec.
ZeroSpec == [image |-> "", port |-> 0, tmpl |-> <<>>]

\* The ids (namespace and name) of the ObjectStore objects in play.
GwIds ==
    { [name |-> <<"a">>, namespace |-> <<"b", "-", "c">>],
      [name |-> <<"a", "-", "b">>, namespace |-> <<"c">>] }

\* &objectv1alpha1.ObjectStore{}: the object Reconcile hands to Get.
ZeroObjectStore ==
    [name |-> <<>>, namespace |-> <<>>, uid |-> 0, finalizers |-> <<>>,
     deleting |-> FALSE, spec |-> ZeroSpec]

FinalizerToken == buildFinalizerName(Kind)

\* Finalizer lists a user may submit with a new object.
UserFinalizers == { <<>>, <<FinalizerToken>> }

\* Addresses the store allocates to a new Service ("" : it allocates none).
ClusterIPs == { "", "10.0.0.1" }

\* The key of an object taken from its name alone.
keyOfNameOnly(namespace, name) == [namespace |-> <<>>, name |-> name]

keyOf(namespace, name) == [namespace |-> namespace, name |-> name]

Present(store, key) == key \in DOMAIN store

Put(store, key, obj) ==
    [k \in DOMAIN store \cup {key} |-> IF k = key THEN obj ELSE store[k]]

Drop(store, keys) == [k \in DOMAIN store \ keys |-> store[k]]

Empty == [k \in {} |-> 0]

----------------------------------------------------------------------------
(* controllerutil: finalizers and owner references *)

ContainsFinalizer(o, finalizer) ==
    \E i \in 1..Len(o.finalizers) : o.finalizers[i] = finalizer

AddFinalizer(o, finalizer) ==
    IF ContainsFinalizer(o, finalizer)
    THEN o
    ELSE [o EXCEPT !.finalizers = Append(@, finalizer)]

RemoveFinalizer(o, finalizer) ==
    [o EXCEPT !.finalizers = SelectSeq(@, LAMBDA f : f # finalizer)]

\* The controller reference SetControllerReference builds for owner.
ControllerRef(owner) ==
    [kind |-> Kind, name |-> owner.name, uid |-> owner.uid, controller |-> TRUE]

\* SetControllerReference(owner, object, scheme): the reference replaces one to
\* the same kind and name, or is added.
SetControllerReference(owner, object) ==
    [object EXCEPT !.owner =
        {r \in @ : ~(r.kind = Kind /\ r.name = owner.name)} \cup {ControllerRef(owner)}]

\* A store call as the invocation's log keeps it.
Call(verb, res, object) ==
    [verb |-> verb, res |-> res,
     key |-> keyOf(object.namespace, object.name), owner |-> object.owner,
     spec |-> object.spec]

----------------------------------------------------------------------------
(* The claim step: createPVC (objectstore_controller.go) *)

\* The claim built with the template's spec as the user wrote it.
NewPVCAsTemplate(o) ==
    [name |-> instanceName(o.name, o.namespace),
     namespace |-> o.namespace,
     owner |-> {},
     spec |-> o.spec.tmpl[1]]

\* The claim createPVC builds from the ObjectStore o (o.spec.tmpl is not nil).
NewPVC(o) ==
    [name |-> instanceName(o.name, o.namespace),
     namespace |-> o.namespace,
     owner |-> {},
     spec |-> [o.spec.tmpl[1] EXCEPT !.accessModes = <<ReadWriteOnce>>,
                                     !.volumeMode = PersistentVolumeFilesystem]]

\* createPVC writing the claim over the one the store already has.
createPVCOverwriting(store, o, fault) ==
    IF o.spec.tmpl = <<>>
    THEN [store |-> store, out |-> "panic", calls |-> <<>>]
    ELSE LET pvc == NewPVC(o)
             key == keyOf(pvc.namespace, pvc.name)
             call == <<Call("Create", "pvc", pvc)>>
         IN  IF fault = "write"
             THEN [store |-> store, out |-> "err", calls |-> call]
             ELSE IF Present(store, key)
             THEN [store |-> Put(store, key, pvc), out |-> "exists", calls |-> call]
             ELSE [store |-> Put(store, key, pvc), out |-> "created", calls |-> call]

\* createPVC against the claims in store; fault is the store's answer to Create
\* when it is not the one the store's content decides.
\* out: "panic" (nil template), "err", "exists", "created".
createPVC(store, o, fault) ==
    IF o.spec.tmpl = <<>>
    THEN [store |-> store, out |-> "panic", calls |-> <<>>]
    ELSE LET pvc == NewPVC(o)
             key == keyOf(pvc.namespace, pvc.name)
             call == <<Call("Create", "pvc", pvc)>>
         IN  IF fault = "write"
             THEN [store |-> store, out |-> "err", calls |-> call]
             ELSE IF Present(store, key)
             THEN [store |-> store, out |-> "exists", calls |-> call]
             ELSE [store |-> Put(store, key, pvc), out |-> "created", calls |-> call]

----------------------------------------------------------------------------
(* The service step: reconcileService (spec.go) *)

ZeroServiceSpec == [selector |-> {}, ports |-> <<>>, clusterIP |-> ""]

generateService(o) ==
    [name |-> instanceName(o.name, o.namespace),
     namespace |-> o.namespace,
     labels |-> getLabels(o.name, o.namespace, TRUE),
     owner |-> {},
     spec |-> ZeroServiceSpec]

addPort(service, name, port, destPort) ==
    IF port = 0 \/ destPort = 0
    THEN service
    ELSE [service EXCEPT !.spec.ports =
             Append(@, [name |-> name, port |-> port, targetPort |-> destPort,
                        protocol |-> "TCP"])]

\* The mutateFunc adding its port to the ports the service already has.
serviceMutateAccumulating(o, service) ==
    [err |-> FALSE,
     obj |-> addPort([service EXCEPT !.spec.selector =
                         getLabels(o.name, o.namespace, FALSE)],
                     "http", rgwPortExternalPort, rgwPortInternalPort)]

\* reconcileService's mutateFunc, applied to the service as Get left it.
serviceMutate(o, service) ==
    [err |-> FALSE,
     obj |-> addPort([service EXCEPT !.spec =
                         [ZeroServiceSpec EXCEPT
                             !.selector = getLabels(o.name, o.namespace, FALSE)]],
                     "http", rgwPortExternalPort, rgwPortInternalPort)]

\* What the store keeps of a written Service: it allocates the cluster address
\* ip to a new Service that names none, and a Service updated without an
\* address keeps the one it was allocated.
serviceAdmit(new, old, ip) ==
    IF new.spec.clusterIP # ""
    THEN new
    ELSE [new EXCEPT !.spec.clusterIP = IF old = <<>> THEN ip ELSE old[1].spec.clusterIP]

----------------------------------------------------------------------------
(* The deployment step: createOrUpdateDeployment (spec.go) *)

objectStoreDataDirectory == "/var/lib/ceph/radosgw/data"

CephUID == 167

cephGID == 167

\* The zero value of v1.Container, in the fields the model keeps.
ZeroContainer ==
    [name |-> "", image |-> "", command |-> <<>>, args |-> <<>>, mountPath |-> "",
     envImage |-> ""]

podNameEnvVar == <<"POD_NAME">>

\* fmt.Sprintf("$(%s)", envVarName)
ContainerEnvVarReference(envVarName) == <<"$", "(">> \o envVarName \o <<")">>

\* The pieces of s as one string.
RECURSIVE Flatten(_)
Flatten(s) == IF s = <<>> THEN "" ELSE Head(s) \o Flatten(Tail(s))

\* hash: the first 16 bytes of sha256(s) in hex, kept as one piece that names
\* its input (for "$(POD_NAME)" it is 3b5dd2b313abb4941d0de8ecdd7b2fb2).
hash(s) == << "sha256[:16](" \o Flatten(s) \o ")" >>

\* The third flag is written "--nolockdep " in the source, space included.
defaultDaemonFlag ==
    << <<"-", "d">>,
       <<"-", "-", "no", "-", "mon", "-", "config">>,
       <<"-", "-", "nolockdep", " ">> >>

makeDaemonContainer(o) ==
    [name |-> "rgw",
     image |-> o.spec.image,
     command |-> <<"radosgw-sqlite">>,
     args |-> defaultDaemonFlag \o
              << NewFlag(<<"i", "d">>, hash(ContainerEnvVarReference(podNameEnvVar))),
                 NewFlag(<<"h", "o", "s", "t">>, ContainerEnvVarReference(podNameEnvVar)),
                 NewFlag(<<"librados", " ", "sqlite", " ", "data", " ", "dir">>,
                         <<objectStoreDataDirectory>>),
                 NewFlag(<<"debug", " ", "rgw">>, <<"1", "5">>) >>,
     mountPath |-> objectStoreDataDirectory,
     envImage |-> o.spec.image]

ZeroPodTemplate ==
    [name |-> <<>>, labels |-> {}, initImage |-> "", containers |-> <<>>,
     runAsUser |-> 0, runAsGroup |-> 0, fsGroup |-> 0, claimName |-> <<>>]

makeRGWPodSpec(o) ==
    LET rgwDaemonContainer == makeDaemonContainer(o)
    IN  IF rgwDaemonContainer = ZeroContainer
        THEN [err |-> TRUE, pod |-> ZeroPodTemplate]
        ELSE [err |-> FALSE,
              pod |-> [name |-> instanceName(o.name, o.namespace),
                       labels |-> getLabels(o.name, o.namespace, TRUE),
                       initImage |-> o.spec.image,
                       containers |-> <<rgwDaemonContainer>>,
                       runAsUser |-> CephUID,
                       runAsGroup |-> cephGID,
                       fsGroup |-> CephUID,
                       claimName |-> instanceName(o.name, o.namespace)]]

ZeroDeploymentSpec ==
    [selector |-> {}, template |-> ZeroPodTemplate, replicas |-> 0,
     strategy |-> "", maxUnavailable |-> 0, maxSurge |-> 0]

\* The mutateFunc keeping the replica count and strategy a stored deployment
\* already has.
deploymentMutateKeepingScale(o, deploy) ==
    LET p == makeRGWPodSpec(o)
        fresh == deploy.spec.replicas = 0
    IN  IF p.err
        THEN [err |-> TRUE, obj |-> deploy]
        ELSE [err |-> FALSE,
              obj |-> [deploy EXCEPT !.spec =
                          [selector |-> getLabels(o.name, o.namespace, FALSE),
                           template |-> p.pod,
                           replicas |-> IF fresh THEN 1 ELSE deploy.spec.replicas,
                           strategy |-> IF fresh THEN "RollingUpdate"
                                        ELSE deploy.spec.strategy,
                           maxUnavailable |-> IF fresh THEN 1
                                              ELSE deploy.spec.maxUnavailable,
                           maxSurge |-> IF fresh THEN 0 ELSE deploy.spec.maxSurge]]]

\* createOrUpdateDeployment's mutateFunc, applied to the deployment as Get left it.
deploymentMutate(o, deploy) ==
    LET p == makeRGWPodSpec(o)
    IN  IF p.err
        THEN [err |-> TRUE, obj |-> deploy]
        ELSE [err |-> FALSE,
              obj |-> [deploy EXCEPT !.spec =
                          [selector |-> getLabels(o.name, o.namespace, FALSE),
                           template |-> p.pod,
                           replicas |-> 1,
                           strategy |-> "RollingUpdate",
                           maxUnavailable |-> 1,
                           maxSurge |-> 0]]]

\* The store keeps a written Deployment as it is.
deploymentAdmit(new, old) == new

NewDeployment(o) ==
    [name |-> instanceName(o.name, o.namespace),
     namespace |-> o.namespace,
     labels |-> getLabels(o.name, o.namespace, TRUE),
     owner |-> {},
     spec |-> ZeroDeploymentSpec]

----------------------------------------------------------------------------
(* controllerutil.CreateOrUpdate *)

\* The mutate function of the caller for res, applied to the object x as it is
\* after Get: a record [err, obj].
Mutate(res, o, x) ==
    IF res = "svc" THEN serviceMutate(o, x) ELSE deploymentMutate(o, x)

\* What the store keeps of a written object (old: <<>> on Create, <<stored>>
\* on Update).
Admit(res, new, old, ip) ==
    IF res = "svc" THEN serviceAdmit(new, old, ip) ELSE deploymentAdmit(new, old)

\* Get into obj, mutate, then Create (not found) or Update (changed).  Get
\* overwrites obj with the stored object, owner references included.
\* fault: "none", "get" (Get fails other than not-found), "write" (Create or
\* Update fails).  result: "created", "updated", "unchanged", "" on error.
CreateOrUpdate(store, res, o, obj, fault, ip) ==
    LET key == keyOf(obj.namespace, obj.name)
        get == <<Call("Get", res, [obj EXCEPT !.owner = {}])>>
    IN  IF fault = "get"
        THEN [store |-> store, result |-> "", err |-> "get", calls |-> get, obj |-> obj]
        ELSE IF ~Present(store, key)
        THEN LET m == Mutate(res, o, obj)
             IN  IF m.err
                 THEN [store |-> store, result |-> "", err |-> "mutate",
                       calls |-> get, obj |-> m.obj]
                 ELSE IF fault = "write"
                 THEN [store |-> store, result |-> "", err |-> "write",
                       calls |-> get \o <<Call("Create", res, m.obj)>>, obj |-> m.obj]
                 ELSE LET kept == Admit(res, m.obj, <<>>, ip)
                      IN  [store |-> Put(store, key, kept), result |-> "created",
                           err |-> "", calls |-> get \o <<Call("Create", res, m.obj)>>,
                           obj |-> kept]
        ELSE LET existing == store[key]
                 m == Mutate(res, o, existing)
             IN  IF m.err
                 THEN [store |-> store, result |-> "", err |-> "mutate",
                       calls |-> get, obj |-> m.obj]
                 ELSE IF m.obj = existing
                 THEN [store |-> store, result |-> "unchanged", err |-> "",
                       calls |-> get, obj |-> m.obj]
                 ELSE IF fault = "write"
                 THEN [store |-> store, result |-> "", err |-> "write",
                       calls |-> get \o <<Call("Update", res, m.obj)>>, obj |-> m.obj]
                 ELSE LET kept == Admit(res, m.obj, <<existing>>, ip)
                      IN  [store |-> Put(store, key, kept), result |-> "updated",
                           err |-> "", calls |-> get \o <<Call("Update", res, m.obj)>>,
                           obj |-> kept]

\* reconcileService: ownerFault is SetControllerReference failing.
\* out: "err" or the CreateOrUpdate result; errAt names the failing call.
reconcileService(store, o, ownerFault, fault, ip) ==
    LET service == generateService(o)
    IN  IF ownerFault
        THEN [store |-> store, out |-> "err", errAt |-> "owner", calls |-> <<>>,
              clusterIP |-> ""]
        ELSE LET r == CreateOrUpdate(store, "svc", o, SetControllerReference(o, service),
                                     fault, ip)
             IN  IF r.err # ""
                 THEN [store |-> r.store, out |-> "err", errAt |-> r.err,
                       calls |-> r.calls, clusterIP |-> ""]
                 ELSE [store |-> r.store, out |-> r.result, errAt |-> "",
                       calls |-> r.calls, clusterIP |-> r.obj.spec.clusterIP]

createOrUpdateDeployment(store, o, ownerFault, fault) ==
    LET deploy == NewDeployment(o)
    IN  IF ownerFault
        THEN [store |-> store, out |-> "err", errAt |-> "owner", calls |-> <<>>]
        ELSE LET r == CreateOrUpdate(store, "dep", o, SetControllerReference(o, deploy),
                                     fault, "")
             IN  IF r.err # ""
                 THEN [store |-> r.store, out |-> "err", errAt |-> r.err, calls |-> r.calls]
                 ELSE [store |-> r.store, out |-> r.result, errAt |-> "", calls |-> r.calls]

----------------------------------------------------------------------------
(* ObjectStoreReconciler.Reconcile (objectstore_controller.go) *)

\* An invocation before its first step.
\*   obj     the ObjectStore as the invocation holds it (its own copy)
\*   branch  "notfound", "fetcherr", "deleting", "active"
\*   result  "none" (running), "ok" (nil error), "err", "panic"
\*   calls   the store calls issued so far, in order
\*   errs    the external calls that returned an error the code does not expect
\*   quiet   nothing but this invocation changed the store since it started
\*   rerun   the invocation before this one converged, and nothing but the two
\*           changed the store since that one started
NewInvocation ==
    [pc |-> "idle", obj |-> ZeroObjectStore, branch |-> "", result |-> "none",
     requeue |-> FALSE, calls |-> <<>>, errs |-> {}, pvcOp |-> "", svcOp |-> "",
     depOp |-> "", clusterIP |-> "", quiet |-> FALSE, rerun |-> FALSE]

Return(i, result) == [i EXCEPT !.pc = "done", !.result = result, !.requeue = FALSE]

\* Reconcile's entry with not-found handled as every other Get error.
ReconcileEntryNotFoundFails(id, stored, fault, rerun) ==
    LET i == [NewInvocation EXCEPT
                 !.quiet = TRUE, !.rerun = rerun,
                 !.calls = <<[verb |-> "Get", res |-> "gw",
                              key |-> keyOf(id.namespace, id.name), owner |-> {}]>>]
    IN  IF fault = "get"
        THEN Return([i EXCEPT !.branch = "fetcherr", !.errs = {"fetch"}], "err")
        ELSE IF stored = <<>>
        THEN Return([i EXCEPT !.branch = "notfound"], "err")
        ELSE IF stored[1].deleting
        THEN Return([i EXCEPT !.branch = "deleting",
                              !.obj = RemoveFinalizer(stored[1], FinalizerToken)], "ok")
        ELSE [i EXCEPT !.branch = "active", !.pc = "pvc",
                       !.obj = AddFinalizer(stored[1], FinalizerToken)]

\* Reconcile's entry with every Get error handled as not-found.
ReconcileEntryErrorIgnored(id, stored, fault, rerun) ==
    LET i == [NewInvocation EXCEPT
                 !.quiet = TRUE, !.rerun = rerun,
                 !.calls = <<[verb |-> "Get", res |-> "gw",
                              key |-> keyOf(id.namespace, id.name), owner |-> {}]>>]
    IN  IF fault = "get"
        THEN Return([i EXCEPT !.branch = "fetcherr", !.errs = {"fetch"}], "ok")
        ELSE IF stored = <<>>
        THEN Return([i EXCEPT !.branch = "notfound"], "ok")
        ELSE IF stored[1].deleting
        THEN Return([i EXCEPT !.branch = "deleting",
                              !.obj = RemoveFinalizer(stored[1], FinalizerToken)], "ok")
        ELSE [i EXCEPT !.branch = "active", !.pc = "pvc",
                       !.obj = AddFinalizer(stored[1], FinalizerToken)]

\* Reconcile's entry with the deletion branch deleting the dependents itself.
ReconcileEntryDeletingDependents(id, stored, fault, rerun) ==
    LET i == [NewInvocation EXCEPT
                 !.quiet = TRUE, !.rerun = rerun,
                 !.calls = <<[verb |-> "Get", res |-> "gw",
                              key |-> keyOf(id.namespace, id.name), owner |-> {}]>>]
        dependent == keyOf(id.namespace, instanceName(id.name, id.namespace))
    IN  IF fault = "get"
        THEN Return([i EXCEPT !.branch = "fetcherr", !.errs = {"fetch"}], "err")
        ELSE IF stored = <<>>
        THEN Return([i EXCEPT !.branch = "notfound"], "ok")
        ELSE IF stored[1].deleting
        THEN Return([i EXCEPT !.branch = "deleting",
                              !.obj = RemoveFinalizer(stored[1], FinalizerToken),
                              !.calls = @ \o
                                  <<[verb |-> "Delete", res |-> "dep",
                                     key |-> dependent, owner |-> {}]>>], "ok")
        ELSE [i EXCEPT !.branch = "active", !.pc = "pvc",
                       !.obj = AddFinalizer(stored[1], FinalizerToken)]

\* Lines 59-95: Get, then the not-found, error, deletion and finalizer branches.
\* stored is <<>> (not found) or <<object>>; fault is "get" when Get fails
\* otherwise.
ReconcileEntry(id, stored, fault, rerun) ==
    LET i == [NewInvocation EXCEPT
                 !.quiet = TRUE, !.rerun = rerun,
                 !.calls = <<[verb |-> "Get", res |-> "gw",
                              key |-> keyOf(id.namespace, id.name), owner |-> {}]>>]
        finalizerName == buildFinalizerName(Kind)
    IN  IF fault = "get"
        THEN Return([i EXCEPT !.branch = "fetcherr", !.errs = {"fetch"}], "err")
        ELSE IF stored = <<>>
        THEN Return([i EXCEPT !.branch = "notfound"], "ok")
        ELSE IF stored[1].deleting
        THEN Return([i EXCEPT !.branch = "deleting",
                              !.obj = RemoveFinalizer(stored[1], finalizerName)], "ok")
        ELSE [i EXCEPT !.branch = "active", !.pc = "pvc",
                       !.obj = IF ~ContainsFinalizer(stored[1], finalizerName)
                               THEN AddFinalizer(stored[1], finalizerName)
                               ELSE stored[1]]

\* Reconcile going on to the service after createPVC failed.
AfterClaimContinuing(i, r) ==
    LET j == [i EXCEPT !.calls = @ \o r.calls]
    IN  CASE r.out = "panic" -> [Return(j, "panic") EXCEPT !.quiet = FALSE]
          [] r.out = "err"   -> [j EXCEPT !.errs = @ \cup {"pvc"}, !.pc = "svc",
                                          !.quiet = FALSE]
          [] OTHER           -> [j EXCEPT !.pc = "svc", !.pvcOp = r.out]

\* Reconcile returning the store's already-exists answer as an error.
AfterClaimExistsFails(i, r) ==
    LET j == [i EXCEPT !.calls = @ \o r.calls]
    IN  CASE r.out = "panic"  -> [Return(j, "panic") EXCEPT !.quiet = FALSE]
          [] r.out = "err"    -> [Return([j EXCEPT !.errs = @ \cup {"pvc"}], "err")
                                     EXCEPT !.quiet = FALSE]
          [] r.out = "exists" -> [Return(j, "err") EXCEPT !.quiet = FALSE]
          [] OTHER            -> [j EXCEPT !.pc = "svc", !.pvcOp = r.out]

\* Lines 97-101: the invocation after createPVC answered r.
AfterClaim(i, r) ==
    LET j == [i EXCEPT !.calls = @ \o r.calls]
    IN  CASE r.out = "panic" -> [Return(j, "panic") EXCEPT !.quiet = FALSE]
          [] r.out = "err"   -> [Return([j EXCEPT !.errs = @ \cup {"pvc"}], "err")
                                    EXCEPT !.quiet = FALSE]
          [] OTHER           -> [j EXCEPT !.pc = "svc", !.pvcOp = r.out]

\* Reconcile dropping reconcileService's error.
AfterServiceIgnoringError(i, r) ==
    LET j == [i EXCEPT !.calls = @ \o r.calls]
    IN  IF r.out = "err"
        THEN [j EXCEPT !.errs = @ \cup {"svc-" \o r.errAt}, !.pc = "dep", !.quiet = FALSE]
        ELSE [j EXCEPT !.pc = "dep", !.svcOp = r.out, !.clusterIP = r.clusterIP]

\* Lines 103-107: the invocation after reconcileService answered r.
AfterService(i, r) ==
    LET j == [i EXCEPT !.calls = @ \o r.calls]
    IN  IF r.out = "err"
        THEN [Return([j EXCEPT !.errs = @ \cup {"svc-" \o r.errAt}], "err")
                 EXCEPT !.quiet = FALSE]
        ELSE [j EXCEPT !.pc = "dep", !.svcOp = r.out, !.clusterIP = r.clusterIP]

\* Lines 109-117: the invocation after createOrUpdateDeployment answered r.
AfterDeployment(i, r) ==
    LET j == [i EXCEPT !.calls = @ \o r.calls]
    IN  IF r.out = "err"
        THEN [Return([j EXCEPT !.errs = @ \cup {"dep-" \o r.errAt}], "err")
                 EXCEPT !.quiet = FALSE]
        ELSE Return([j EXCEPT !.depOp = r.out], "ok")

Stored(id) == IF id \in DOMAIN gw THEN <<gw[id]>> ELSE <<>>

\* The scheduler hands a request for id to Reconcile: one invocation per id at
\* a time.
Fetch(id) ==
    /\ inv[id].pc \in {"idle", "done"}
    /\ \E fault \in {"none", "get"} :
          inv' = [inv EXCEPT ![id] = ReconcileEntry(id, Stored(id), fault, stable[id])]
    /\ stable' = [stable EXCEPT ![id] = FALSE]
    /\ UNCHANGED <<gw, pvcs, svcs, deps, created, bucket, play, calc>>

ClaimStep(id) ==
    /\ inv[id].pc = "pvc"
    /\ \E fault \in {"none", "write"} :
          LET r == createPVC(pvcs, inv[id].obj, fault)
          IN  /\ pvcs' = r.store
              /\ inv' = [inv EXCEPT ![id] = AfterClaim(@, r)]
    /\ UNCHANGED <<gw, svcs, deps, created, stable, bucket, play, calc>>

ServiceStep(id) ==
    /\ inv[id].pc = "svc"
    /\ \E ownerFault \in BOOLEAN, fault \in {"none", "get", "write"}, ip \in ClusterIPs :
          LET r == reconcileService(svcs, inv[id].obj, ownerFault, fault, ip)
          IN  /\ svcs' = r.store
              /\ inv' = [inv EXCEPT ![id] = AfterService(@, r)]
    /\ UNCHANGED <<gw, pvcs, deps, created, stable, bucket, play, calc>>

DeploymentStep(id) ==
    /\ inv[id].pc = "dep"
    /\ \E ownerFault \in BOOLEAN, fault \in {"none", "get", "write"} :
          LET r == createOrUpdateDeployment(deps, inv[id].obj, ownerFault, fault)
              i == AfterDeployment(inv[id], r)
          IN  /\ deps' = r.store
              /\ inv' = [inv EXCEPT ![id] = i]
              /\ stable' = [stable EXCEPT ![id] = i.result = "ok" /\ i.quiet]
    /\ UNCHANGED <<gw, pvcs, svcs, created, bucket, play, calc>>

----------------------------------------------------------------------------
(* The user and the store *)

\* Every running or finished invocation has seen the store change under it.
Disturbed == [id \in GwIds |-> [inv[id] EXCEPT !.quiet = FALSE, !.rerun = FALSE]]

Unstable == [id \in GwIds |-> FALSE]

UserCreate(id) ==
    /\ id \notin DOMAIN gw
    /\ created[id] < MaxCreates
    /\ \E spec \in GatewaySpecs, finalizers \in UserFinalizers :
          gw' = Put(gw, id, [name |-> id.name, namespace |-> id.namespace,
                             uid |-> created[id] + 1, finalizers |-> finalizers,
                             deleting |-> FALSE, spec |-> spec])
    /\ created' = [created EXCEPT ![id] = @ + 1]
    /\ inv' = Disturbed
    /\ stable' = Unstable
    /\ UNCHANGED <<pvcs, svcs, deps, bucket, play, calc>>

UserUpdate(id) ==
    /\ id \in DOMAIN gw
    /\ \E spec \in GatewaySpecs \ {gw[id].spec} :
          gw' = [gw EXCEPT ![id].spec = spec]
    /\ inv' = Disturbed
    /\ stable' = Unstable
    /\ UNCHANGED <<pvcs, svcs, deps, created, bucket, play, calc>>

\* Delete: the store removes an object without finalizers at once and marks
\* one with finalizers as being deleted.
UserDelete(id) ==
    /\ id \in DOMAIN gw
    /\ ~gw[id].deleting
    /\ gw' = IF gw[id].finalizers = <<>>
             THEN Drop(gw, {id})
             ELSE [gw EXCEPT ![id].deleting = TRUE]
    /\ inv' = Disturbed
    /\ stable' = Unstable
    /\ UNCHANGED <<pvcs, svcs, deps, created, bucket, play, calc>>

\* Specs a user may submit that lack a required field: no image.
IncompleteSpecs == { [image |-> "", port |-> 0, tmpl |-> <<TemplateA>>] }

\* The user creates an ObjectStore without an image; the store's schema for
\* the kind does not refuse it.
UserCreateIncomplete(id) ==
    /\ id \notin DOMAIN gw
    /\ created[id] < MaxCreates
    /\ \E spec \in IncompleteSpecs, finalizers \in UserFinalizers :
          gw' = Put(gw, id, [name |-> id.name, namespace |-> id.namespace,
                             uid |-> created[id] + 1, finalizers |-> finalizers,
                             deleting |-> FALSE, spec |-> spec])
    /\ created' = [created EXCEPT ![id] = @ + 1]
    /\ inv' = Disturbed
    /\ stable' = Unstable
    /\ UNCHANGED <<pvcs, svcs, deps, bucket, play, calc>>

\* What another writer may leave of the stored deployment d: its spec scaled
\* and given another strategy and image, or emptied, and its owner references
\* kept or removed.
DriftedDeployments(d) ==
    LET specs == { [d.spec EXCEPT !.replicas = 3, !.strategy = "Recreate",
                                  !.maxUnavailable = 0, !.maxSurge = 1,
                                  !.template.initImage = "other"],
                   ZeroDeploymentSpec }
    IN  { [d EXCEPT !.spec = sp, !.owner = ow] : sp \in specs, ow \in {d.owner, {}} }
        \ {d}

\* Another writer changes the stored deployment of id between reconciles.
DeploymentDrift(id) ==
    LET key == keyOf(id.namespace, instanceName(id.name, id.namespace))
    IN  /\ Present(deps, key)
        /\ \E d \in DriftedDeployments(deps[key]) :
              deps' = Put(deps, key, d)
        /\ inv' = Disturbed
        /\ stable' = Unstable
        /\ UNCHANGED <<gw, pvcs, svcs, created, bucket, play, calc>>

\* A dependent whose owner references all point to objects that are gone.
Dangling(store, key) ==
    /\ store[key].owner # {}
    /\ \A r \in store[key].owner :
          ~\E id \in DOMAIN gw :
              /\ id.namespace = key.namespace
              /\ id.name = r.name
              /\ gw[id].uid = r.uid

DanglingKeys(store) == {k \in DOMAIN store : Dangling(store, k)}

\* One pass of the store's garbage collector.
GarbageCollect ==
    /\ DanglingKeys(pvcs) \cup DanglingKeys(svcs) \cup DanglingKeys(deps) # {}
    /\ pvcs' = Drop(pvcs, DanglingKeys(pvcs))
    /\ svcs' = Drop(svcs, DanglingKeys(svcs))
    /\ deps' = Drop(deps, DanglingKeys(deps))
    /\ inv' = Disturbed
    /\ stable' = Unstable
    /\ UNCHANGED <<gw, created, bucket, play, calc>>

----------------------------------------------------------------------------
(* ObjectStoreBucketReconciler.Reconcile (objectstore_bucket_controller.go) *)

\*   pc         "idle", "running" (inside RunWithContext), "done"
\*   cancelled  the invocation's context is cancelled
\*   errs       the external calls that returned an error
IdleBucket ==
    [pc |-> "idle", cancelled |-> FALSE, errs |-> {}, result |-> "none",
     requeue |-> FALSE]

\* Lines 60-79: NewProvisioner, its error dropped, then RunWithContext.  After
\* a failed NewProvisioner the controller may be nil: the call on it panics.
BucketStart ==
    /\ bucket.pc \in {"idle", "done"}
    /\ \/ bucket' = [IdleBucket EXCEPT !.pc = "running"]
       \/ bucket' = [IdleBucket EXCEPT !.pc = "running", !.errs = {"new"}]
       \/ bucket' = [IdleBucket EXCEPT !.pc = "done", !.errs = {"new"},
                                       !.result = "panic"]
    /\ UNCHANGED <<gw, pvcs, svcs, deps, created, inv, stable, play, calc>>

\* The runtime cancels the context.
BucketCancel ==
    /\ bucket.pc = "running"
    /\ ~bucket.cancelled
    /\ bucket' = [bucket EXCEPT !.cancelled = TRUE]
    /\ UNCHANGED <<gw, pvcs, svcs, deps, created, inv, stable, play, calc>>

\* The return with the run's error handed back without a requeue.
BucketReturnWithoutRequeue ==
    /\ bucket.pc = "running"
    /\ bucket.cancelled
    /\ \/ bucket' = [bucket EXCEPT !.pc = "done", !.result = "ok", !.requeue = FALSE]
       \/ bucket' = [bucket EXCEPT !.pc = "done", !.result = "err", !.requeue = FALSE,
                                   !.errs = @ \cup {"run"}]
    /\ UNCHANGED <<gw, pvcs, svcs, deps, created, inv, stable, play, calc>>

\* Lines 79-85: RunWithContext returns once the context is done.
BucketReturn ==
    /\ bucket.pc = "running"
    /\ bucket.cancelled
    /\ \/ bucket' = [bucket EXCEPT !.pc = "done", !.result = "ok", !.requeue = FALSE]
       \/ bucket' = [bucket EXCEPT !.pc = "done", !.result = "err", !.requeue = TRUE,
                                   !.errs = @ \cup {"run"}]
    /\ UNCHANGED <<gw, pvcs, svcs, deps, created, inv, stable, play, calc>>

----------------------------------------------------------------------------
(* The helpers of spec.go applied to inputs of their own *)

\* No helper application in this run.
NoCalc == [op |-> "none"]

\* Names and namespaces handed to instanceName.
Labels ==
    { <<"a">>, <<"b">>, <<"a", "b">>, <<"a", "-", "b">>, <<"b", "-", "a">> }

NamePairs == [name : Labels, namespace : Labels]

KeyChars == {"d", "r", " ", "-", "_"}

\* Keys handed to NewFlag: every string over KeyChars of 1..MaxKeyLen characters.
Keys == UNION { [1..n -> KeyChars] : n \in 1..MaxKeyLen }

\* Values handed to NewFlag.
Values == { <<"1", "5">>, <<"a", " ", "b", "_", "c">> }

CalcInputs ==
    [op : {"instanceName"}, a : NamePairs, b : NamePairs, done : {FALSE}, out : {<<>>}]
    \cup [op : {"NewFlag"}, key : Keys, value : Values, done : {FALSE}, out : {<<>>}]

\* instanceName applied to the two pairs.
ApplyInstanceName ==
    /\ calc.op = "instanceName"
    /\ ~calc.done
    /\ calc' = [calc EXCEPT !.done = TRUE,
                            !.out = <<instanceName(calc.a.name, calc.a.namespace),
                                      instanceName(calc.b.name, calc.b.namespace)>>]
    /\ UNCHANGED <<gw, pvcs, svcs, deps, created, inv, stable, bucket, play>>

\* NewFlag applied to the key and the value.
ApplyNewFlag ==
    /\ calc.op = "NewFlag"
    /\ ~calc.done
    /\ calc' = [calc EXCEPT !.done = TRUE, !.out = NewFlag(calc.key, calc.value)]
    /\ UNCHANGED <<gw, pvcs, svcs, deps, created, inv, stable, bucket, play>>

----------------------------------------------------------------------------

\* The state common to every specification: an empty store, nothing running.
Start ==
    /\ gw = Empty
    /\ pvcs = Empty
    /\ svcs = Empty
    /\ deps = Empty
    /\ created = [id \in GwIds |-> 0]
    /\ inv = [id \in GwIds |-> NewInvocation]
    /\ stable = Unstable
    /\ bucket = IdleBucket

\* One ObjectStore id per run, any of GwIds.
Init ==
    /\ Start
    /\ \E id \in GwIds : play = {id}
    /\ calc = NoCalc

Next ==
    \/ \E id \in play : Fetch(id)
    \/ \E id \in play : ClaimStep(id)
    \/ \E id \in play : ServiceStep(id)
    \/ \E id \in play : DeploymentStep(id)
    \/ \E id \in play : UserCreate(id)
    \/ \E id \in play : UserUpdate(id)
    \/ \E id \in play : UserDelete(id)
    \/ GarbageCollect

Spec == Init /\ [][Next]_vars

\* The two reconcilers side by side, on the first id.
InitBoth ==
    /\ Start
    /\ play = {CHOOSE id \in GwIds : id.name = <<"a">>}
    /\ calc = NoCalc

NextBoth ==
    \/ Next
    \/ BucketStart
    \/ BucketCancel
    \/ BucketReturn

SpecBoth == InitBoth /\ [][NextBoth]_vars

\* The ObjectStore reconciler with users who leave out the image and with
\* other writers changing the deployment.
NextDrift ==
    \/ Next
    \/ \E id \in play : UserCreateIncomplete(id)
    \/ \E id \in play : DeploymentDrift(id)

SpecDrift == InitBoth /\ [][NextDrift]_vars

\* The helpers alone: one input, one application.
InitPure ==
    /\ Start
    /\ play = {}
    /\ calc \in CalcInputs

NextPure ==
    \/ ApplyInstanceName
    \/ ApplyNewFlag

SpecPure == InitPure /\ [][NextPure]_vars

\* Two ObjectStores whose instance names are the same string, in the store
\* when the reconciler starts, reconciled side by side, every store call an
\* interleaving point.
InitTwo ==
    /\ \E choice \in [GwIds -> GatewaySpecs \X UserFinalizers] :
          gw = [id \in GwIds |->
                   [name |-> id.name, namespace |-> id.namespace, uid |-> 1,
                    finalizers |-> choice[id][2], deleting |-> FALSE,
                    spec |-> choice[id][1]]]
    /\ pvcs = Empty
    /\ svcs = Empty
    /\ deps = Empty
    /\ created = [id \in GwIds |-> 1]
    /\ inv = [id \in GwIds |-> NewInvocation]
    /\ stable = Unstable
    /\ bucket = IdleBucket
    /\ play = GwIds
    /\ calc = NoCalc

NextTwo ==
    \/ \E id \in play : Fetch(id)
    \/ \E id \in play : ClaimStep(id)
    \/ \E id \in play : ServiceStep(id)
    \/ \E id \in play : DeploymentStep(id)

SpecTwo == InitTwo /\ [][NextTwo]_vars

----------------------------------------------------------------------------
(* Properties *)

\* The name and key the three dependents of id are to have, written out.
ExpectedName(id) == <<"r", "g", "w", "-">> \o id.name \o <<"-">> \o id.namespace

ExpectedKey(id) == [namespace |-> id.namespace, name |-> ExpectedName(id)]

\* The invocation of id returned nil from the Active branch, and nothing but
\* the invocation touched the store since it fetched the object.
Converged(id) ==
    /\ inv[id].pc = "done"
    /\ inv[id].branch = "active"
    /\ inv[id].result = "ok"
    /\ inv[id].quiet

Writes(calls, res) ==
    {n \in 1..Len(calls) : calls[n].res = res /\ calls[n].verb \in {"Create", "Update"}}

Mutations(calls) ==
    {n \in 1..Len(calls) : calls[n].verb \in {"Create", "Update", "Delete"}}

CallsOn(calls, res) == {n \in 1..Len(calls) : calls[n].res = res}

TokenCount(o) ==
    Cardinality({n \in 1..Len(o.finalizers) : o.finalizers[n] = FinalizerToken})

\* C1: after Reconcile returned success for an object that is in the store and
\* not being deleted, the stored object carries the finalizer token, once.
C1_StoredObjectCarriesFinalizer ==
    \A id \in play :
        Converged(id) /\ id \in DOMAIN gw => TokenCount(gw[id]) = 1

\* C2: after Reconcile ran on an object that is being deleted and carries the
\* token, it returned success without requeue and the stored object no longer
\* carries the token (the store then removes the object).
C2_DeletionRemovesStoredFinalizer ==
    \A id \in play :
        inv[id].pc = "done" /\ inv[id].branch = "deleting" /\ inv[id].quiet
        => /\ inv[id].result = "ok"
           /\ ~inv[id].requeue
           /\ id \in DOMAIN gw => TokenCount(gw[id]) = 0

\* C3: every claim, service and deployment the engine writes to the store
\* carries the controller reference to the ObjectStore it is written for.
C3_WritesCarryControllerRef ==
    \A id \in play :
        \A n \in Mutations(inv[id].calls) :
            ControllerRef(inv[id].obj) \in inv[id].calls[n].owner

\* C4: once an ObjectStore is gone from the store and the garbage collector
\* has nothing left to collect, its claim, service and deployment are gone.
C4_NoDependentsAfterDeletion ==
    \A id \in play :
        /\ created[id] > 0
        /\ id \notin DOMAIN gw
        /\ inv[id].pc \in {"idle", "done"}
        /\ DanglingKeys(pvcs) \cup DanglingKeys(svcs) \cup DanglingKeys(deps) = {}
        => /\ ExpectedKey(id) \notin DOMAIN pvcs
           /\ ExpectedKey(id) \notin DOMAIN svcs
           /\ ExpectedKey(id) \notin DOMAIN deps

C6_SecondRunChangesNothing ==
    \A id \in play :
        inv[id].pc = "done" /\ inv[id].rerun /\ inv[id].quiet /\ inv[id].errs = {}
        => /\ inv[id].result = "ok"
           /\ inv[id].pvcOp = "exists"
           /\ inv[id].svcOp = "unchanged"
           /\ inv[id].depOp = "unchanged"
           /\ Writes(inv[id].calls, "svc") = {}
           /\ Writes(inv[id].calls, "dep") = {}

\* The position of a resource in the order of the steps.
StepOrder(res) ==
    CASE res = "gw" -> 0 [] res = "pvc" -> 1 [] res = "svc" -> 2 [] res = "dep" -> 3

\* C7: one invocation calls the store for the claim, then the service, then
\* the deployment; a failed claim step leaves no call for service or
\* deployment, a failed service step none for the deployment, and the
\* invocation returns an error.
C7_StepsInOrderAndShortCircuit ==
    \A id \in play :
        LET c == inv[id].calls
            e == inv[id].errs
        IN  /\ \A m, n \in 1..Len(c) : m < n => StepOrder(c[m].res) <= StepOrder(c[n].res)
            /\ CallsOn(c, "dep") # {} => CallsOn(c, "svc") # {}
            /\ CallsOn(c, "svc") # {} => CallsOn(c, "pvc") # {}
            /\ "pvc" \in e => CallsOn(c, "svc") = {} /\ CallsOn(c, "dep") = {}
            /\ e \cap {"svc-owner", "svc-get", "svc-write", "svc-mutate"} # {}
                   => CallsOn(c, "dep") = {}
            /\ e # {} => inv[id].pc = "done" /\ inv[id].result = "err"

\* C7's case: the claim was created, then the service step failed.
C7_Witness ==
    \E id \in play :
        /\ inv[id].pc = "done"
        /\ inv[id].pvcOp = "created"
        /\ "svc-write" \in inv[id].errs
        /\ CallsOn(inv[id].calls, "svc") # {}

\* C8: reconciling an id that is not in the store returns success without
\* requeue, and the invocation issues no create, update or delete.
C8_NotFoundIsSuccessWithoutWrites ==
    \A id \in play :
        inv[id].pc = "done" /\ inv[id].branch = "notfound"
        => /\ inv[id].result = "ok"
           /\ ~inv[id].requeue
           /\ Mutations(inv[id].calls) = {}
           /\ Len(inv[id].calls) = 1

\* C8's case: the object was there, was deleted, and is reconciled again.
C8_Witness ==
    \E id \in play :
        /\ inv[id].pc = "done"
        /\ inv[id].branch = "notfound"
        /\ created[id] > 0
        /\ ExpectedKey(id) \in DOMAIN pvcs

\* C9: when the fetch fails with an error other than not-found, Reconcile
\* returns an error and the invocation issues no create, update or delete.
C9_FetchErrorIsReturnedWithoutWrites ==
    \A id \in play :
        "fetch" \in inv[id].errs
        => /\ inv[id].pc = "done"
           /\ inv[id].result = "err"
           /\ Mutations(inv[id].calls) = {}
           /\ Len(inv[id].calls) = 1

\* C9's case: the fetch of an object that is in the store failed.
C9_Witness ==
    \E id \in play :
        /\ "fetch" \in inv[id].errs
        /\ id \in DOMAIN gw
        /\ inv[id].quiet

\* C10 as stated: every error of an external call, the bucket provisioner's
\* construction included, makes the invocation return an error.
C10_NoErrorSwallowed ==
    /\ \A id \in play :
          inv[id].pc = "done" /\ inv[id].errs # {} => inv[id].result = "err"
    /\ bucket.pc = "done" /\ bucket.errs # {} => bucket.result = "err"

\* C10 amended: every error of the fetch, the claim create, the owner
\* reference setting, the service and deployment create-or-update and the
\* bucket provisioner's run makes the invocation return an error; the error of
\* the bucket provisioner's construction is dropped.
C10_ErrorsReturnedButConstruction ==
    /\ \A id \in play :
          inv[id].errs # {} => inv[id].pc = "done" /\ inv[id].result = "err"
    /\ "run" \in bucket.errs => bucket.pc = "done" /\ bucket.result = "err"

\* C10's case: a service update failed, and the provisioner's run failed.
C10_Witness ==
    /\ \E id \in play :
          /\ "svc-write" \in inv[id].errs
          /\ inv[id].pvcOp = "exists"
    /\ "run" \in bucket.errs

\* C11: no invocation, in any branch, issues a delete call to the store, and
\* no step of an invocation removes an ObjectStore, claim, service or
\* deployment from the store; only the garbage collector removes dependents.
C11_NoDeleteCallEver ==
    /\ [](\A id \in play :
             \A n \in 1..Len(inv[id].calls) : inv[id].calls[n].verb # "Delete")
    /\ [][(\E id \in play :
               Fetch(id) \/ ClaimStep(id) \/ ServiceStep(id) \/ DeploymentStep(id))
           => /\ DOMAIN gw \subseteq DOMAIN gw'
              /\ DOMAIN pvcs \subseteq DOMAIN pvcs'
              /\ DOMAIN svcs \subseteq DOMAIN svcs'
              /\ DOMAIN deps \subseteq DOMAIN deps']_vars

\* C11's case: the deletion branch returned and the three dependents are
\* still in the store.
C11_Witness ==
    \E id \in play :
        /\ inv[id].pc = "done"
        /\ inv[id].branch = "deleting"
        /\ inv[id].quiet
        /\ ExpectedKey(id) \in DOMAIN pvcs \cap DOMAIN svcs \cap DOMAIN deps

\* C12: the claim an invocation submits for creation has access modes
\* [ReadWriteOnce] and volume mode Filesystem whatever the template asks for,
\* the size and storage class of the template, and the invocation's
\* ObjectStore keeps the template the user wrote.
C12_ClaimForcedModesRestPassedThrough ==
    \A id \in play :
        \A n \in 1..Len(inv[id].calls) :
            LET c == inv[id].calls[n]
                o == inv[id].obj
            IN  c.res = "pvc" =>
                    /\ c.verb = "Create"
                    /\ c.spec.accessModes = <<"ReadWriteOnce">>
                    /\ c.spec.volumeMode = "Filesystem"
                    /\ o.spec.tmpl \in {<<TemplateA>>, <<TemplateB>>}
                    /\ c.spec.storage = o.spec.tmpl[1].storage
                    /\ c.spec.storageClassName = o.spec.tmpl[1].storageClassName

\* C12's case: a claim was created from a template that asks for another
\* access mode and volume mode.
C12_Witness ==
    \E id \in play :
        /\ inv[id].pvcOp = "created"
        /\ inv[id].obj.spec.tmpl = <<TemplateA>>
        /\ TemplateA.accessModes # <<"ReadWriteOnce">>
        /\ TemplateA.volumeMode # "Filesystem"
        /\ ExpectedKey(id) \in DOMAIN pvcs
        /\ pvcs[ExpectedKey(id)].spec.storage = "1Gi"

\* C13: a claim that is in the store is never changed by a reconcile: the
\* claim step only issues a Create, a claim that exists already counts as
\* success and the invocation goes on to the service, and a stored claim keeps
\* its content as long as it is stored.
C13_StoredClaimNeverChanges ==
    /\ [](\A id \in play :
             /\ \A n \in CallsOn(inv[id].calls, "pvc") : inv[id].calls[n].verb = "Create"
             /\ inv[id].pvcOp = "exists" =>
                    /\ "pvc" \notin inv[id].errs
                    /\ inv[id].pc \in {"svc", "dep"} \/ CallsOn(inv[id].calls, "svc") # {}
                       \/ "svc-owner" \in inv[id].errs)
    /\ [][\A k \in DOMAIN pvcs \cap DOMAIN pvcs' : pvcs'[k] = pvcs[k]]_vars

\* C13's case: after the template was changed a reconcile found the claim,
\* went through service and deployment, and the stored claim still has the
\* size of the template it was created from.
C13_Witness ==
    \E id \in play :
        /\ Converged(id)
        /\ inv[id].pvcOp = "exists"
        /\ id \in DOMAIN gw
        /\ gw[id].spec.tmpl # <<>>
        /\ pvcs[ExpectedKey(id)].spec.storage # gw[id].spec.tmpl[1].storage

\* C14: an invocation of the bucket reconciler does not return while its
\* context is not cancelled; it returns after the cancellation, nil without
\* requeue when the provisioner's run returned no error, and an error with
\* Requeue set when the run returned an error.
C14_BucketReturnsOnlyAfterCancel ==
    /\ [](/\ bucket.result \in {"ok", "err"} => bucket.pc = "done" /\ bucket.cancelled
          /\ bucket.pc = "running" => bucket.result = "none"
          /\ bucket.result = "ok" => "run" \notin bucket.errs /\ ~bucket.requeue
          /\ bucket.result = "err" => "run" \in bucket.errs /\ bucket.requeue
          /\ "run" \in bucket.errs => bucket.result = "err")
    /\ [][bucket.pc = "running" /\ ~bucket.cancelled => bucket'.pc = "running"]_vars

\* C14's case: the context was cancelled and the run returned an error.
C14_Witness ==
    /\ bucket.pc = "done"
    /\ bucket.cancelled
    /\ bucket.result = "err"
    /\ "run" \in bucket.errs

\* C15: after every successful reconcile, first or repeated, the stored
\* service has no port when the external or the internal port value is zero
\* and otherwise the one TCP port 8080 -> 7480, never more, and its selector
\* is {"object_store": <name of the ObjectStore>}.
C15_ServicePortsRecomputed ==
    \A id \in play :
        Converged(id) =>
            LET service == svcs[ExpectedKey(id)]
            IN  /\ service.spec.ports =
                       IF rgwPortExternalPort = 0 \/ rgwPortInternalPort = 0
                       THEN <<>>
                       ELSE <<[name |-> "http", port |-> 8080, targetPort |-> 7480,
                               protocol |-> "TCP"]>>
                /\ service.spec.selector = { <<"object_store", id.name>> }

\* C15's case: a reconcile converged after updating a service that an earlier
\* reconcile had written.
C15_Witness ==
    \E id \in play :
        /\ Converged(id)
        /\ inv[id].svcOp = "updated"
        /\ Len(svcs[ExpectedKey(id)].spec.ports) = 1

\* C16: after a successful reconcile of an ObjectStore whose gateway port is
\* zero, the stored service has no port.
C16_ZeroGatewayPortNotExposed ==
    \A id \in play :
        Converged(id) /\ inv[id].obj.spec.port = 0
        => svcs[ExpectedKey(id)].spec.ports = <<>>

\* C17: after every successful reconcile the stored deployment has one
\* replica, the RollingUpdate strategy with maxUnavailable 1 and maxSurge 0,
\* and the pod template built from the ObjectStore the invocation fetched,
\* whatever another writer had made of the stored deployment before.
C17_DeploymentSpecOverwritten ==
    \A id \in play :
        Converged(id) =>
            LET d == deps[ExpectedKey(id)].spec
                o == inv[id].obj
            IN  /\ d.replicas = 1
                /\ d.strategy = "RollingUpdate"
                /\ d.maxUnavailable = 1
                /\ d.maxSurge = 0
                /\ d.selector = { <<"object_store", id.name>> }
                /\ d.template.name = ExpectedName(id)
                /\ d.template.labels = { <<"object_store", id.name>> }
                /\ d.template.initImage = o.spec.image
                /\ d.template.claimName = ExpectedName(id)
                /\ d.template.runAsUser = 167
                /\ d.template.runAsGroup = 167
                /\ d.template.fsGroup = 167
                /\ Len(d.template.containers) = 1
                /\ d.template.containers[1].name = "rgw"
                /\ d.template.containers[1].image = o.spec.image
                /\ d.template.containers[1].command = <<"radosgw-sqlite">>

\* C17's case: another writer had changed the deployment and removed its
\* owner references, and a reconcile then updated it and converged.
C17_Witness ==
    \E id \in play :
        /\ Converged(id)
        /\ inv[id].depOp = "updated"
        /\ inv[id].pvcOp = "exists"
        /\ inv[id].svcOp = "unchanged"
        /\ deps[ExpectedKey(id)].owner = {}
        /\ deps[ExpectedKey(id)].spec.replicas = 1

\* C18: an invocation for an ObjectStore without an image or without a
\* storage-claim template fails (returns an error or panics), whenever it is
\* invoked, and writes no deployment.
C18_MissingFieldFailsWithoutDeployment ==
    \A id \in play :
        /\ inv[id].pc = "done"
        /\ inv[id].branch = "active"
        /\ inv[id].obj.spec.image = "" \/ inv[id].obj.spec.tmpl = <<>>
        => /\ inv[id].result \in {"err", "panic"}
           /\ inv[id].depOp \notin {"created", "updated"}

\* C19 as stated: two distinct (name, namespace) pairs get two distinct
\* instance names.
C19_UniquePerPair ==
    calc.op = "instanceName" /\ calc.done /\ calc.a # calc.b
    => calc.out[1] # calc.out[2]

\* C19 amended: the instance name is "rgw-<name>-<namespace>", and two pairs
\* get distinct instance names when they have the same namespace and distinct
\* names, or the same name and distinct namespaces.
C19_UniqueWithinNamespace ==
    calc.op = "instanceName" /\ calc.done
    => /\ calc.out[1] = <<"r", "g", "w", "-">> \o calc.a.name \o <<"-">> \o calc.a.namespace
       /\ calc.out[2] = <<"r", "g", "w", "-">> \o calc.b.name \o <<"-">> \o calc.b.namespace
       /\ calc.a.namespace = calc.b.namespace /\ calc.a.name # calc.b.name
              => calc.out[1] # calc.out[2]
       /\ calc.a.name = calc.b.name /\ calc.a.namespace # calc.b.namespace
              => calc.out[1] # calc.out[2]

\* C19's case: two names with hyphens in one namespace with a hyphen.
C19_Witness ==
    /\ calc.op = "instanceName"
    /\ calc.done
    /\ calc.a.namespace = <<"b", "-", "a">>
    /\ calc.b.namespace = <<"b", "-", "a">>
    /\ calc.a.name = <<"a", "-", "b">>
    /\ calc.b.name = <<"a">>
    /\ calc.out[1] # calc.out[2]

\* The key with every separator (space, hyphen, underscore) spelled sep.
Respell(key, sep) ==
    [i \in 1..Len(key) |-> IF key[i] \in {" ", "-", "_"} THEN sep ELSE key[i]]

\* C20: NewFlag gives the three spellings of a key that differ only in the
\* separator (space, hyphen, underscore) the same flag,
\* "--<key with hyphens for separators>=<value>", the value as given.
C20_SeparatorsEquivalent ==
    calc.op = "NewFlag" /\ calc.done
    => LET expected == <<"-", "-">> \o Respell(calc.key, "-") \o <<"=">> \o calc.value
       IN  /\ calc.out = expected
           /\ \A sep \in {" ", "-", "_"} :
                  NewFlag(Respell(calc.key, sep), calc.value) = expected

\* C20's case: a key of two words with a space between them, as in
\* "debug rgw" with "15".
C20_Witness ==
    /\ calc.op = "NewFlag"
    /\ calc.done
    /\ calc.key = <<"d", " ", "r">>
    /\ calc.value = <<"1", "5">>
    /\ calc.out = <<"-", "-", "d", "-", "r", "=", "1", "5">>

\* C21: the main container of every deployment a successful reconcile leaves
\* has exactly the arguments "-d", "--no-mon-config", "--nolockdep",
\* "--id=<hash of $(POD_NAME)>", "--host=$(POD_NAME)",
\* "--librados-sqlite-data-dir=/var/lib/ceph/radosgw/data", "--debug-rgw=15",
\* in this order, whatever the name, namespace and image of the ObjectStore.
C21_ContainerArgsExact ==
    \A id \in play :
        Converged(id) =>
            LET args == deps[ExpectedKey(id)].spec.template.containers[1].args
            IN  [n \in 1..Len(args) |-> Flatten(args[n])] =
                    << "-d",
                       "--no-mon-config",
                       "--nolockdep",
                       "--id=sha256[:16]($(POD_NAME))",
                       "--host=$(POD_NAME)",
                       "--librados-sqlite-data-dir=/var/lib/ceph/radosgw/data",
                       "--debug-rgw=15" >>

\* The service and deployment specs and the claim spec that the ObjectStore o
\* asks for.
TargetServiceSpec(o) ==
    [selector |-> { <<"object_store", o.name>> },
     ports |-> <<[name |-> "http", port |-> 8080, targetPort |-> 7480,
                  protocol |-> "TCP"]>>]

TargetDeploymentSpec(o) == deploymentMutate(o, NewDeployment(o)).obj.spec

TargetClaimSpec(o) ==
    [accessModes |-> <<"ReadWriteOnce">>, volumeMode |-> "Filesystem",
     storage |-> o.spec.tmpl[1].storage,
     storageClassName |-> o.spec.tmpl[1].storageClassName]

\* An invocation on an Active ObjectStore with a template ended and no store
\* call of it failed.
RanWithoutFailure(id) ==
    /\ inv[id].pc = "done"
    /\ inv[id].branch = "active"
    /\ inv[id].errs = {}
    /\ inv[id].obj.spec.tmpl # <<>>

\* The service and the deployment of id are stored with the specs the stored
\* ObjectStore asks for, and the claim is stored.
ServiceAndDeploymentAtTarget(id) ==
    /\ id \in DOMAIN gw
    /\ ExpectedKey(id) \in DOMAIN pvcs \cap DOMAIN svcs \cap DOMAIN deps
    /\ [selector |-> svcs[ExpectedKey(id)].spec.selector,
        ports |-> svcs[ExpectedKey(id)].spec.ports] = TargetServiceSpec(gw[id])
    /\ deps[ExpectedKey(id)].spec = TargetDeploymentSpec(gw[id])

C23_OwnerRestoredOnUpdate ==
    \A id \in play :
        Converged(id) =>
            /\ ControllerRef(inv[id].obj) \in svcs[ExpectedKey(id)].owner
            /\ ControllerRef(inv[id].obj) \in deps[ExpectedKey(id)].owner

\* The stores new and old differ at most at key.
OnlyAt(old, new, key) ==
    \A k \in (DOMAIN old \cup DOMAIN new) \ {key} :
        k \in DOMAIN old \cap DOMAIN new /\ new[k] = old[k]

\* Claim, service and deployment of id are stored as an invocation for id
\* alone leaves them (the cluster address of the service is the store's).
AsReconciledAlone(id) ==
    LET k == ExpectedKey(id)
        o == gw[id]
        labels == { <<"object_store", id.name>> }
    IN  /\ k \in DOMAIN pvcs \cap DOMAIN svcs \cap DOMAIN deps
        /\ pvcs[k] = [name |-> ExpectedName(id), namespace |-> id.namespace,
                      owner |-> {}, spec |-> TargetClaimSpec(o)]
        /\ [svcs[k] EXCEPT !.spec.clusterIP = ""] =
               [name |-> ExpectedName(id), namespace |-> id.namespace,
                labels |-> labels, owner |-> {ControllerRef(o)},
                spec |-> [selector |-> labels,
                          ports |-> TargetServiceSpec(o).ports, clusterIP |-> ""]]
        /\ deps[k] = [name |-> ExpectedName(id), namespace |-> id.namespace,
                      labels |-> labels, owner |-> {ControllerRef(o)},
                      spec |-> TargetDeploymentSpec(o)]

\* C24: with two ObjectStores reconciled side by side, a step of the
\* invocation for one changes nothing but that invocation and the claim,
\* service or deployment named instanceName of it in its namespace, and a
\* converged invocation leaves its three dependents as it would alone,
\* whatever the other invocation did in between.
C24_NoInterference ==
    /\ [](\A id \in play : Converged(id) => AsReconciledAlone(id))
    /\ [][\A id \in play :
              Fetch(id) \/ ClaimStep(id) \/ ServiceStep(id) \/ DeploymentStep(id)
              => /\ gw' = gw
                 /\ \A other \in play \ {id} : inv'[other] = inv[other]
                 /\ OnlyAt(pvcs, pvcs', ExpectedKey(id))
                 /\ OnlyAt(svcs, svcs', ExpectedKey(id))
                 /\ OnlyAt(deps, deps', ExpectedKey(id))]_vars

\* C24's case: two ObjectStores with the same instance name in two
\* namespaces, both invocations past their claim and under way, and each
\* claim stored from its own template.
C24_Witness ==
    \E x, y \in play :
        /\ x # y
        /\ ExpectedName(x) = ExpectedName(y)
        /\ inv[x].pc = "dep" /\ inv[x].pvcOp = "created"
        /\ inv[y].pc = "svc" /\ inv[y].pvcOp = "created"
        /\ gw[x].spec # gw[y].spec
        /\ pvcs[ExpectedKey(x)].spec = TargetClaimSpec(gw[x])
        /\ pvcs[ExpectedKey(y)].spec = TargetClaimSpec(gw[y])

====
